---- MODULE Spec2Model ----
(***************************************************************************)
(* Model of rethinkdb-ts-migrate: the up / down migration runs of          *)
(* src/migrate.ts (compiled to lib/migrate.js, which the CLI imports).     *)
(*                                                                         *)
(* File names are sequences of one-character strings, so that the regular  *)
(* expression, indexOf / lastIndexOf / substring and the string comparison *)
(* of timestamps are computed the way the code computes them.              *)
(*                                                                         *)
(* Spec follows up and down called as a library. SpecCli puts the command  *)
(* line in front of them, SpecBoot follows connectToDb query by query, and *)
(* SpecHist adds runs stopped at an await and the record of what the       *)
(* migration procedures have done.                                         *)
(***************************************************************************)
EXTENDS Integers, Sequences, FiniteSets, TLC

(***************************************************************************)
(* Bounds                                                                  *)
(***************************************************************************)
\* number of up / down invocations in one behaviour
MaxRuns == 3
\* number of files in the migrations directory
MaxFiles == 3

\* the command line is followed through at most this many up / down processes
\* and this many files
MaxCliRuns == 2
MaxCliFiles == 2

\* the history of the procedures is followed through at most this many runs
\* and this many files
MaxHistRuns == 2
MaxHistFiles == 2

\* connectToDb is followed through at most this many calls
MaxConnects == 4

(***************************************************************************)
(* Strings                                                                 *)
(***************************************************************************)
\* the characters used by the file names below, in UTF-16 code unit order
Alphabet ==
  <<"-", ".", "0", "1", "2", "3", "4", "5", "6", "7", "8", "9",
    "C", "a", "d", "i", "j", "l", "n", "o", "s", "t", "v", "x">>

Chars == {Alphabet[k] : k \in 1..Len(Alphabet)}

Code == [c \in Chars |-> CHOOSE k \in 1..Len(Alphabet) : Alphabet[k] = c]

Digits == {"0", "1", "2", "3", "4", "5", "6", "7", "8", "9"}

Min(a, b) == IF a < b THEN a ELSE b

\* JavaScript a > b on strings: the first differing code unit decides, and a
\* proper prefix is the smaller string
StrGT(a, b) ==
  LET n == Min(Len(a), Len(b))
      diff == {k \in 1..n : a[k] # b[k]}
  IN  IF diff = {}
        THEN Len(a) > Len(b)
        ELSE LET k == CHOOSE d \in diff : \A e \in diff : d <= e
             IN  Code[a[k]] > Code[b[k]]

\* String.prototype.indexOf(c): 0-based index of the first c, -1 when absent
IndexOf(s, c) ==
  IF \E k \in 1..Len(s) : s[k] = c
    THEN (CHOOSE k \in 1..Len(s) : s[k] = c /\ \A j \in 1..(k - 1) : s[j] # c) - 1
    ELSE -1

\* String.prototype.lastIndexOf(c): 0-based index of the last c, -1 when absent
LastIndexOf(s, c) ==
  IF \E k \in 1..Len(s) : s[k] = c
    THEN (CHOOSE k \in 1..Len(s) : s[k] = c /\ \A j \in (k + 1)..Len(s) : s[j] # c) - 1
    ELSE -1

Clamp(n, len) == IF n < 0 THEN 0 ELSE IF n > len THEN len ELSE n

\* String.prototype.substring(a, b): arguments clamped to 0..length and
\* swapped when a > b; characters a .. b-1 (0-based)
Substring(s, a, b) ==
  LET ca == Clamp(a, Len(s))
      cb == Clamp(b, Len(s))
      lo == Min(ca, cb)
      hi == IF ca < cb THEN cb ELSE ca
  IN  SubSeq(s, lo + 1, hi)

(***************************************************************************)
(* The migrations directory                                                *)
(***************************************************************************)
TsLen == 14

Stamp(d) == <<"2", "0", "2", "3", "0", "1", "0", d, "0", "0", "0", "0", "0", "0">>

FInit   == Stamp("1") \o <<"-", "i", "n", "i", "t", ".", "t", "s">>
FAddCol == Stamp("2") \o <<"-", "a", "d", "d", "C", "o", "l", ".", "j", "s">>
\* a name holding a '-' and a '.'
FIdx    == Stamp("3") \o <<"-", "a", "d", "d", "-", "i", "d", "x", ".", "v", "2", ".", "t", "s">>
\* same timestamp as FAddCol: a naming collision
FOther  == Stamp("2") \o <<"-", "i", "n", "i", "t", ".", "t", "s">>
\* not a migration file: 13 digits
FShort  == <<"2", "0", "2", "3", "0", "1", "0", "4", "0", "0", "0", "0", "0">>
             \o <<"-", "x", ".", "t", "s">>

FilePool == {FInit, FAddCol, FIdx, FOther, FShort}

\* file.match(/^\d{14}-.*\.(js|ts)$/)
rxMigrationFile(file) ==
  /\ Len(file) >= TsLen + 4
  /\ \A k \in 1..TsLen : file[k] \in Digits
  /\ file[TsLen + 1] = "-"
  /\ file[Len(file) - 2] = "."
  /\ <<file[Len(file) - 1], file[Len(file)]>> \in {<<"j", "s">>, <<"t", "s">>}


\* filename -> {name, timestamp, filename}, the map callback of getMigrationsExcept
parseMigration(filename) ==
  LET tsix == IndexOf(filename, "-")
  IN  [name      |-> Substring(filename, tsix + 1, LastIndexOf(filename, ".")),
       timestamp |-> Substring(filename, 0, tsix),
       filename  |-> filename]

\* the value of completedMigrations[length - 1] on an empty array
Undefined == [undefined |-> TRUE]

\* Array.prototype.slice(a, b) for 0 <= a <= b
Slice(s, a, b) == SubSeq(s, a + 1, Min(b, Len(s)))

\* Array.prototype.reverse
Reverse(s) == [k \in 1..Len(s) |-> s[Len(s) + 1 - k]]

\* newerThan with >= for >: the latest completed migration counts as new
newerOrSame(migration, completedMigration) ==
  IF completedMigration # Undefined
    THEN ~StrGT(completedMigration.timestamp, migration.timestamp)
    ELSE TRUE

\* newerThan without the comparison: every file counts as new
newerAlways(migration, completedMigration) == TRUE

\* the filter callback of getMigrationsExcept
newerThan(migration, completedMigration) ==
  IF completedMigration # Undefined
    THEN StrGT(migration.timestamp, completedMigration.timestamp)
    ELSE TRUE

\* getMigrationsExcept up to the require calls: files is what readdir returned
getMigrationsExcept(completedMigration, files, numToApply) ==
  LET migrationFiles == SelectSeq(files, rxMigrationFile)
      parsed == [k \in 1..Len(migrationFiles) |-> parseMigration(migrationFiles[k])]
      keep(migration) == newerThan(migration, completedMigration)
      migrations == SelectSeq(parsed, keep)
  IN  IF numToApply # -1 THEN Slice(migrations, 0, numToApply) ELSE migrations

\* requireMigrations up to the require calls
requireMigrations(migrations) ==
  LET withFile(migration) ==
        [id        |-> migration.id,
         name      |-> migration.name,
         timestamp |-> migration.timestamp,
         filename  |-> migration.timestamp \o <<"-">> \o migration.name]
  IN  [k \in 1..Len(migrations) |-> withFile(migrations[k])]

\* the sequences that list every element of the set S once
RECURSIVE Orders(_)
Orders(S) ==
  IF S = {} THEN {<<>>}
  ELSE UNION {{<<x>> \o s : s \in Orders(S \ {x})} : x \in S}

\* fs.readdir: the directory entries, in an order the file system chooses
readdir(dir) == Orders(dir)

\* r.table(...).orderBy({index: 'timestamp'}): rows in ascending timestamp
\* order, rows of equal timestamp in an order the database chooses
orderByTimestamp(rows) ==
  {s \in Orders(rows) :
     \A a \in 1..(Len(s) - 1) : ~StrGT(s[a].timestamp, s[a + 1].timestamp)}

\* the primary key the database generates for an inserted row: one no row has
newId(rows) ==
  CHOOSE n \in 1..(Cardinality(rows) + 1) :
    /\ \A row \in rows : row.id # n
    /\ \A m \in 1..(n - 1) : \E row \in rows : row.id = m

(***************************************************************************)
(* State                                                                   *)
(***************************************************************************)
VARIABLES
  disk,        \* the entries of <root>/migrations
  table,       \* the rows of the _migrations table
  db,          \* what exists on the server: the database, the table, its timestamp index
  pool,        \* the connection pool: "none", "open" or "drained"
  pc,          \* where the invocation is; "idle" when none is in progress
  migrations,  \* the planned migrations of the invocation
  i,           \* the loop index of up / down (0-based)
  invoked,     \* the positions in migrations whose procedure was called, in call order
  running,     \* the positions in migrations whose procedure was called and has not settled
  log,         \* what the invocation has logged
  result,      \* the promise of up / down: "none", "pending", "returned", "rejected"
  thrown,      \* the error the promise was rejected with
  run,         \* the invocation: command, flag, and the table it started from
  prev,        \* the invocation before it, with how it ended
  added,       \* a file was added since the last invocation started
  runs,        \* the number of invocations so far
  cli,         \* the command line of the process: command, flags, exit status
  boot,        \* what the connectToDb in progress has created
  hist         \* what the migration procedures have done so far

\* the state of the library
core ==
  <<disk, table, db, pool, pc, migrations, i, invoked, running, log, result, thrown,
    run, prev, added, runs>>

\* the state that only the command line, the stepwise bootstrap or the
\* history of the procedures write
aux == <<cli, boot, hist>>

vars == <<core, aux>>

NoRun == [cmd |-> "none", all |-> FALSE, table0 |-> {}, added |-> FALSE]

NoError == [error |-> "none", at |-> 0]

\* exit is the exit status of the process, -1 while it has not exited
NoCli == [command |-> "none", all |-> FALSE, one |-> FALSE, exit |-> -1]

NoBoot == [created |-> {}, connected |-> FALSE]

\* applied: the migrations whose forward procedure succeeded and whose
\* backward procedure has not succeeded since; unwritten: a procedure succeeded
\* and its ledger write did not happen; window: the migration an up run left
\* applied and unrecorded; again: that migration, during the run that follows
NoHist == [applied |-> {}, unwritten |-> FALSE, window |-> <<>>, again |-> <<>>]

\* how the invocation ended, from its log and its promise
Outcome ==
  IF result = "none" THEN "none"
  ELSE IF result = "pending" THEN "running"
  ELSE IF result = "rejected" THEN "aborted"
  ELSE IF \E k \in 1..Len(log) : log[k].level = "error" THEN "failed"
  ELSE IF \E k \in 1..Len(log) : log[k].msg = "No new migrations" THEN "noNew"
  ELSE "success"

\* a server on which nothing has been created yet
Init ==
  /\ disk = {}
  /\ table = {}
  /\ db = [db |-> FALSE, table |-> FALSE, index |-> FALSE]
  /\ pool = "none"
  /\ pc = "idle"
  /\ migrations = <<>>
  /\ i = 0
  /\ invoked = <<>>
  /\ running = {}
  /\ log = <<>>
  /\ result = "none"
  /\ thrown = NoError
  /\ run = NoRun
  /\ prev = [cmd |-> "none", all |-> FALSE, table0 |-> {}, outcome |-> "none"]
  /\ added = FALSE
  /\ runs = 0
  /\ cli = NoCli
  /\ boot = NoBoot
  /\ hist = NoHist

\* a file is put into the migrations directory (create, or a checkout),
\* between two invocations
AddFile(f) ==
  /\ pc = "idle"
  /\ f \notin disk
  /\ Cardinality(disk) < MaxFiles
  /\ disk' = disk \cup {f}
  /\ added' = TRUE
  /\ UNCHANGED <<table, db, pool, pc, migrations, i, invoked, running, log, result,
                 thrown, run, prev, runs>>

\* logInfo / logError
logInfo(msg) == [level |-> "info", msg |-> msg, name |-> <<>>]
logStep(arrow, migration) == [level |-> "info", msg |-> arrow, name |-> migration.name]
logError(name) == [level |-> "error", msg |-> "Migration failed", name |-> name]

\* r.connectPool(config) in connectToDb
connectPool == "open"

\* r.getPoolMaster()?.drain()
drain == "drained"

\* connectToDb run to its end: the database is created when absent, the table
\* and its index when the table is absent
connectToDb(d) ==
  [db    |-> TRUE,
   table |-> TRUE,
   index |-> IF d.table THEN d.index ELSE TRUE]

\* the command line starts up or down
Started(cmd, all) ==
  /\ pc = "idle"
  /\ runs < MaxRuns
  /\ runs' = runs + 1
  /\ run' = [cmd |-> cmd, all |-> all, table0 |-> table, added |-> added]
  /\ added' = FALSE
  /\ pool' = connectPool
  /\ db' = connectToDb(db)
  /\ i' = 0
  /\ UNCHANGED <<disk, table, prev>>

\* UpPlanned requiring each file at its own step: the procedures before the
\* file that fails to load have been called
UpPlannedPerStep(planned, bad) ==
  /\ migrations' = planned
  /\ IF bad > 0
       THEN /\ log' = <<>>
            /\ result' = "rejected"
            /\ thrown' = [error |-> "LoadError", at |-> bad]
            /\ pc' = "done"
            /\ invoked' = [k \in 1..(bad - 1) |-> k]
            /\ running' = {}
       ELSE IF Len(planned) < 1
         THEN /\ log' = <<logInfo("No new migrations")>>
              /\ result' = "returned"
              /\ thrown' = NoError
              /\ pc' = "done"
              /\ invoked' = <<>>
              /\ running' = {}
         ELSE /\ log' = <<logStep("up", planned[1])>>
              /\ result' = "pending"
              /\ thrown' = NoError
              /\ pc' = "upProc"
              /\ invoked' = <<1>>
              /\ running' = {1}

\* up has a plan: a require throws, or nothing is planned, or the loop starts
\* and calls the first forward procedure. bad is the position of the first
\* planned file whose require throws, 0 when all load.
UpPlanned(planned, bad) ==
  /\ migrations' = planned
  /\ IF bad > 0
       THEN \* getMigrationsExcept rejects, and so does up
            /\ log' = <<>>
            /\ result' = "rejected"
            /\ thrown' = [error |-> "LoadError", at |-> bad]
            /\ pc' = "done"
            /\ invoked' = <<>>
            /\ running' = {}
       ELSE IF Len(planned) < 1
         THEN /\ log' = <<logInfo("No new migrations")>>
              /\ result' = "returned"
              /\ thrown' = NoError
              /\ pc' = "done"
              /\ invoked' = <<>>
              /\ running' = {}
         ELSE /\ log' = <<logStep("up", planned[1])>>
              /\ result' = "pending"
              /\ thrown' = NoError
              /\ pc' = "upProc"
              /\ invoked' = <<1>>
              /\ running' = {1}

\* up, from its call to the await of the first migration procedure
UpBegin(all) ==
  /\ Started("up", all)
  /\ \E completedMigrations \in orderByTimestamp(table), files \in readdir(disk) :
       LET latest == IF Len(completedMigrations) = 0
                       THEN Undefined
                       ELSE completedMigrations[Len(completedMigrations)]
           numToApply == IF all THEN -1 ELSE 1
       IN  \E planned \in {getMigrationsExcept(latest, files, numToApply)} :
             \E bad \in 0..Len(planned) :
               UpPlanned(planned, bad)

\* UpCatch without its return: the error is logged and the loop body goes on
UpCatchFallsThrough(name) ==
  /\ log' = Append(log, logError(name))
  /\ pc' = "upRecord"
  /\ UNCHANGED result

\* UpCatch throwing the error on after logging it
UpCatchRethrows(name) ==
  /\ log' = Append(log, logError(name))
  /\ result' = "rejected"
  /\ pc' = "done"

\* the catch block of up: log and return
UpCatch(name) ==
  /\ log' = Append(log, logError(name))
  /\ result' = "returned"
  /\ pc' = "done"

\* UpProc going on before the forward procedure has settled
UpProcNotAwaited ==
  /\ pc = "upProc"
  /\ pc' = "upRecord"
  /\ UNCHANGED <<disk, table, db, pool, migrations, i, invoked, running, log, result,
                 thrown, run, prev, added, runs>>

\* await migration.code.up(r): the procedure resolves, or it throws / rejects
UpProc ==
  /\ pc = "upProc"
  /\ running' = running \ {i + 1}
  /\ \E ok \in BOOLEAN :
       IF ok
         THEN /\ pc' = "upRecord"
              /\ UNCHANGED <<log, result>>
         ELSE UpCatch(migrations[i + 1].name)
  /\ UNCHANGED <<disk, table, db, pool, migrations, i, invoked, thrown, run, prev,
                 added, runs>>

\* the row up inserts for a migration
insert(rows, migration) ==
  rows \cup {[id        |-> newId(rows),
              name      |-> migration.name,
              timestamp |-> migration.timestamp]}

\* r.table(...).insert({name, timestamp}) settles; then the next turn of the
\* loop up to its await, or the end of up
UpRecord ==
  /\ pc = "upRecord"
  /\ \E ok \in BOOLEAN :
       IF ok
         THEN /\ table' = insert(table, migrations[i + 1])
              /\ i' = i + 1
              /\ IF i + 1 < Len(migrations)
                   THEN /\ log' = Append(log, logStep("up", migrations[i + 2]))
                        /\ pc' = "upProc"
                        /\ invoked' = Append(invoked, i + 2)
                        /\ running' = running \cup {i + 2}
                        /\ UNCHANGED <<pool, result>>
                   ELSE /\ log' = Append(log, logInfo("Migration Successful"))
                        /\ pool' = drain
                        /\ result' = "returned"
                        /\ pc' = "done"
                        /\ UNCHANGED <<invoked, running>>
              /\ UNCHANGED thrown
         ELSE \* the insert fails: the error propagates out of up
              /\ result' = "rejected"
              /\ thrown' = [error |-> "PersistenceError", at |-> i + 1]
              /\ pc' = "done"
              /\ UNCHANGED <<table, pool, i, log, invoked, running>>
  /\ UNCHANGED <<disk, db, migrations, run, prev, added, runs>>

\* rollBackPlan without reverse()
rollBackPlanUnreversed(completedMigrations, all) ==
  IF all THEN completedMigrations
         ELSE <<completedMigrations[Len(completedMigrations)]>>

\* rollBackPlan taking element 0 for element length - 1
rollBackPlanFirst(completedMigrations, all) ==
  IF all THEN Reverse(completedMigrations)
         ELSE <<completedMigrations[1]>>

\* the rows down rolls back, in the order it rolls them back
rollBackPlan(completedMigrations, all) ==
  IF all THEN Reverse(completedMigrations)
         ELSE <<completedMigrations[Len(completedMigrations)]>>

\* down, from its call to the await of the first migration procedure. bad is
\* the position of the first planned file whose require throws, 0 when all load.
DownBegin(all) ==
  /\ Started("down", all)
  /\ \E completedMigrations \in orderByTimestamp(table) :
       IF Len(completedMigrations) = 0
         THEN /\ migrations' = <<>>
              /\ log' = <<logInfo("No new migrations")>>
              /\ result' = "returned"
              /\ thrown' = NoError
              /\ pc' = "done"
              /\ invoked' = <<>>
              /\ running' = {}
         ELSE \E planned \in
                  {requireMigrations(rollBackPlan(completedMigrations, all))} :
                \E bad \in 0..Len(planned) :
                  /\ migrations' = planned
                  /\ IF bad > 0
                       THEN \* a require throws in requireMigrations
                            /\ log' = <<>>
                            /\ result' = "rejected"
                            /\ thrown' = [error |-> "LoadError", at |-> bad]
                            /\ pc' = "done"
                            /\ invoked' = <<>>
                            /\ running' = {}
                       ELSE /\ log' = <<logStep("down", planned[1])>>
                            /\ result' = "pending"
                            /\ thrown' = NoError
                            /\ pc' = "downProc"
                            /\ invoked' = <<1>>
                            /\ running' = {1}

\* DownCatch without its return: the error is logged and the loop body goes on
DownCatchFallsThrough(name) ==
  /\ log' = Append(log, logError(name))
  /\ pc' = "downErase"
  /\ UNCHANGED result

\* the catch block of down: log and return
DownCatch(name) ==
  /\ log' = Append(log, logError(name))
  /\ result' = "returned"
  /\ pc' = "done"

\* await migration.code.down(r): the procedure resolves, or it throws / rejects
DownProc ==
  /\ pc = "downProc"
  /\ running' = running \ {i + 1}
  /\ \E ok \in BOOLEAN :
       IF ok
         THEN /\ pc' = "downErase"
              /\ UNCHANGED <<log, result>>
         ELSE DownCatch(migrations[i + 1].name)
  /\ UNCHANGED <<disk, table, db, pool, migrations, i, invoked, thrown, run, prev,
                 added, runs>>

\* delete that removes no row
deleteNothing(rows, id) == rows

\* r.table(...).get(id).delete()
delete(rows, id) == {row \in rows : row.id # id}

\* the delete of down settles; then the next turn of the loop up to its
\* await, or the end of down
DownErase ==
  /\ pc = "downErase"
  /\ \E ok \in BOOLEAN :
       IF ok
         THEN /\ table' = delete(table, migrations[i + 1].id)
              /\ i' = i + 1
              /\ IF i + 1 < Len(migrations)
                   THEN /\ log' = Append(log, logStep("down", migrations[i + 2]))
                        /\ pc' = "downProc"
                        /\ invoked' = Append(invoked, i + 2)
                        /\ running' = running \cup {i + 2}
                        /\ UNCHANGED <<pool, result>>
                   ELSE /\ log' = Append(log, logInfo("Migration successful"))
                        /\ pool' = drain
                        /\ result' = "returned"
                        /\ pc' = "done"
                        /\ UNCHANGED <<invoked, running>>
              /\ UNCHANGED thrown
         ELSE \* the delete fails: the error propagates out of down
              /\ result' = "rejected"
              /\ thrown' = [error |-> "PersistenceError", at |-> i + 1]
              /\ pc' = "done"
              /\ UNCHANGED <<table, pool, i, log, invoked, running>>
  /\ UNCHANGED <<disk, db, migrations, run, prev, added, runs>>

\* the promise of up / down has settled: its frame is gone, the process stays
\* (the command line attaches no handler and does not exit)
Settled ==
  /\ pc = "done"
  /\ pc' = "idle"
  /\ prev' = [cmd |-> run.cmd, all |-> run.all, table0 |-> run.table0,
              outcome |-> Outcome]
  /\ run' = NoRun
  /\ migrations' = <<>>
  /\ i' = 0
  /\ invoked' = <<>>
  /\ running' = {}
  /\ log' = <<>>
  /\ result' = "none"
  /\ thrown' = NoError
  /\ UNCHANGED <<disk, table, db, pool, added, runs>>

\* up and down called as a library: the command line, the stepwise bootstrap
\* and the history stay out of it
Next ==
  \/ (\E f \in FilePool : AddFile(f)) /\ UNCHANGED aux
  \/ (\E all \in BOOLEAN : UpBegin(all)) /\ UNCHANGED aux
  \/ UpProc /\ UNCHANGED aux
  \/ UpRecord /\ UNCHANGED aux
  \/ (\E all \in BOOLEAN : DownBegin(all)) /\ UNCHANGED aux
  \/ DownProc /\ UNCHANGED aux
  \/ DownErase /\ UNCHANGED aux
  \/ Settled /\ UNCHANGED aux

Spec == Init /\ [][Next]_vars

(***************************************************************************)
(* connectToDb, query by query                                             *)
(***************************************************************************)
\* what connectToDb does not touch
bootFrame ==
  <<disk, table, migrations, i, invoked, running, log, result, thrown, run, prev,
    added, cli, hist>>

\* where a connectToDb in progress can be
bootSteps ==
  {"dbList", "dbCreate", "tableList", "tableCreate", "indexCreate", "indexWait", "wait"}

\* up / down is called: await r.connectPool(config)
connect ==
  /\ pc = "idle"
  /\ runs < MaxConnects
  /\ runs' = runs + 1
  /\ pool' = connectPool
  /\ boot' = [boot EXCEPT !.created = {}]
  /\ pc' = "dbList"
  /\ UNCHANGED <<db, bootFrame>>

\* const dbs = await r.dbList().run(); if (!dbs.includes(config.db))
dbList ==
  /\ pc = "dbList"
  /\ pc' = IF ~db.db THEN "dbCreate" ELSE "tableList"
  /\ UNCHANGED <<db, pool, runs, boot, bootFrame>>

\* await r.dbCreate(config.db).run()
dbCreate ==
  /\ pc = "dbCreate"
  /\ db' = [db EXCEPT !.db = TRUE]
  /\ boot' = [boot EXCEPT !.created = @ \cup {"db"}]
  /\ pc' = "tableList"
  /\ UNCHANGED <<pool, runs, bootFrame>>

\* const tables = await r.tableList().run(); if (!tables.includes(...))
tableList ==
  /\ pc = "tableList"
  /\ pc' = IF ~db.table THEN "tableCreate" ELSE "wait"
  /\ UNCHANGED <<db, pool, runs, boot, bootFrame>>

\* await r.tableCreate(MIGRATION_TABLE_NAME).run()
tableCreate ==
  /\ pc = "tableCreate"
  /\ db' = [db EXCEPT !.table = TRUE]
  /\ boot' = [boot EXCEPT !.created = @ \cup {"table"}]
  /\ pc' = "indexCreate"
  /\ UNCHANGED <<pool, runs, bootFrame>>

\* await r.table(MIGRATION_TABLE_NAME).indexCreate('timestamp').run()
indexCreate ==
  /\ pc = "indexCreate"
  /\ db' = [db EXCEPT !.index = TRUE]
  /\ boot' = [boot EXCEPT !.created = @ \cup {"index"}]
  /\ pc' = "indexWait"
  /\ UNCHANGED <<pool, runs, bootFrame>>

\* await r.table(MIGRATION_TABLE_NAME).indexWait().run()
indexWait ==
  /\ pc = "indexWait"
  /\ pc' = "wait"
  /\ UNCHANGED <<db, pool, runs, boot, bootFrame>>

\* await r.db(config.db).wait({waitFor: 'ready_for_writes'}).run():
\* connectToDb completes
wait ==
  /\ pc = "wait"
  /\ pc' = "connected"
  /\ boot' = [boot EXCEPT !.connected = TRUE]
  /\ UNCHANGED <<db, pool, runs, bootFrame>>

\* the process is stopped while connectToDb awaits a query
stopped ==
  /\ pc \in bootSteps
  /\ pc' = "idle"
  /\ pool' = "none"
  /\ UNCHANGED <<db, runs, boot, bootFrame>>

\* the process ends after connectToDb has completed
ended ==
  /\ pc = "connected"
  /\ pc' = "idle"
  /\ pool' = "none"
  /\ UNCHANGED <<db, runs, boot, bootFrame>>

NextBoot ==
  \/ connect
  \/ dbList
  \/ dbCreate
  \/ tableList
  \/ tableCreate
  \/ indexCreate
  \/ indexWait
  \/ wait
  \/ stopped
  \/ ended

SpecBoot == Init /\ [][NextBoot]_vars

(***************************************************************************)
(* The command line                                                        *)
(***************************************************************************)
\* the check of the flags never finding both
bothGivenNever(all, one) == FALSE

\* if (all && one)
bothGiven(all, one) == all /\ one

\* the config taking the --all flag as it is
configFromAll(all, one) == [all |-> all]

\* const config = {all: !one, root: pathname}
config(all, one) == [all |-> ~one]

\* up or down with both --all and --one: console.error, process.exit(1)
usageError(command, all, one) ==
  /\ pc = "idle"
  /\ bothGiven(all, one)
  /\ cli' = [command |-> command, all |-> all, one |-> one, exit |-> 1]
  /\ UNCHANGED <<core, boot, hist>>

\* migrate-rethinkdb up [--all] [--one]
cliUp(all, one) ==
  /\ ~bothGiven(all, one)
  /\ runs < MaxCliRuns
  /\ UpBegin(config(all, one).all)
  /\ cli' = [command |-> "up", all |-> all, one |-> one, exit |-> -1]
  /\ UNCHANGED <<boot, hist>>

\* migrate-rethinkdb down [--all] [--one]
cliDown(all, one) ==
  /\ ~bothGiven(all, one)
  /\ runs < MaxCliRuns
  /\ DownBegin(config(all, one).all)
  /\ cli' = [command |-> "down", all |-> all, one |-> one, exit |-> -1]
  /\ UNCHANGED <<boot, hist>>

\* migrate-rethinkdb create <name>: the file is written, process.exit(0)
cliCreate(f) ==
  /\ Cardinality(disk) < MaxCliFiles
  /\ Substring(f, LastIndexOf(f, "."), Len(f)) = <<".", "t", "s">>
  /\ AddFile(f)
  /\ cli' = [command |-> "create", all |-> FALSE, one |-> FALSE, exit |-> 0]
  /\ UNCHANGED <<boot, hist>>

\* migrate-rethinkdb create without a name, or an unknown command:
\* process.exit(1)
cliRefused(command) ==
  /\ pc = "idle"
  /\ cli' = [command |-> command, all |-> FALSE, one |-> FALSE, exit |-> 1]
  /\ UNCHANGED <<core, boot, hist>>

\* a file comes into the migrations directory without create
checkout(f) ==
  /\ Cardinality(disk) < MaxCliFiles
  /\ AddFile(f)
  /\ UNCHANGED aux

\* up / down has settled and the process, kept alive by
\* process.stdin.resume(), is interrupted
interrupted ==
  /\ Settled
  /\ cli' = NoCli
  /\ UNCHANGED <<boot, hist>>

NextCli ==
  \/ \E command \in {"up", "down"}, all, one \in BOOLEAN : usageError(command, all, one)
  \/ \E all, one \in BOOLEAN : cliUp(all, one)
  \/ \E all, one \in BOOLEAN : cliDown(all, one)
  \/ \E f \in FilePool : cliCreate(f)
  \/ \E command \in {"create", "unknown"} : cliRefused(command)
  \/ \E f \in FilePool : checkout(f)
  \/ UpProc /\ UNCHANGED aux
  \/ UpRecord /\ UNCHANGED aux
  \/ DownProc /\ UNCHANGED aux
  \/ DownErase /\ UNCHANGED aux
  \/ interrupted

SpecCli == Init /\ [][NextCli]_vars

(***************************************************************************)
(* Runs that can be stopped, and what the procedures have done             *)
(***************************************************************************)
\* the process is stopped while up / down awaits a procedure or a ledger write
Killed ==
  /\ pc \in {"upProc", "upRecord", "downProc", "downErase"}
  /\ pc' = "idle"
  /\ prev' = [cmd |-> run.cmd, all |-> run.all, table0 |-> run.table0,
              outcome |-> "killed"]
  /\ run' = NoRun
  /\ migrations' = <<>>
  /\ i' = 0
  /\ invoked' = <<>>
  /\ running' = {}
  /\ log' = <<>>
  /\ result' = "none"
  /\ thrown' = NoError
  /\ pool' = "none"
  /\ UNCHANGED <<disk, table, db, added, runs>>

\* {name, timestamp} of a migration, what up inserts
identity(migration) == [name |-> migration.name, timestamp |-> migration.timestamp]

histAddFile(f) ==
  /\ Cardinality(disk) < MaxHistFiles
  /\ AddFile(f)
  /\ UNCHANGED aux

histUpBegin(all) ==
  /\ runs < MaxHistRuns
  /\ UpBegin(all)
  /\ hist' = [hist EXCEPT !.again = hist.window, !.window = <<>>]
  /\ UNCHANGED <<cli, boot>>

histDownBegin(all) ==
  /\ runs < MaxHistRuns
  /\ DownBegin(all)
  /\ hist' = [hist EXCEPT !.again = <<>>, !.window = <<>>]
  /\ UNCHANGED <<cli, boot>>

\* the forward procedure that resolves has applied its migration
histUpProc ==
  /\ UpProc
  /\ hist' = IF pc' = "upRecord"
               THEN [hist EXCEPT !.applied = @ \cup {identity(migrations[i + 1])}]
               ELSE hist
  /\ UNCHANGED <<cli, boot>>

\* the insert that fails leaves its migration applied and unrecorded
histUpRecord ==
  /\ UpRecord
  /\ hist' = IF thrown'.error = "PersistenceError"
               THEN [hist EXCEPT !.unwritten = TRUE,
                                 !.window = <<identity(migrations[i + 1])>>]
               ELSE hist
  /\ UNCHANGED <<cli, boot>>

\* the backward procedure that resolves has reverted its migration
histDownProc ==
  /\ DownProc
  /\ hist' = IF pc' = "downErase"
               THEN [hist EXCEPT !.applied = @ \ {identity(migrations[i + 1])}]
               ELSE hist
  /\ UNCHANGED <<cli, boot>>

histDownErase ==
  /\ DownErase
  /\ hist' = IF thrown'.error = "PersistenceError"
               THEN [hist EXCEPT !.unwritten = TRUE]
               ELSE hist
  /\ UNCHANGED <<cli, boot>>

histSettled ==
  /\ Settled
  /\ hist' = [hist EXCEPT !.again = <<>>]
  /\ UNCHANGED <<cli, boot>>

\* the process stopped between a procedure that succeeded and its ledger write
\* leaves the write undone
histKilled ==
  /\ Killed
  /\ hist' = [hist EXCEPT
                !.again = <<>>,
                !.unwritten = @ \/ pc \in {"upRecord", "downErase"},
                !.window = IF pc = "upRecord"
                             THEN <<identity(migrations[i + 1])>> ELSE @]
  /\ UNCHANGED <<cli, boot>>

NextHist ==
  \/ \E f \in FilePool : histAddFile(f)
  \/ \E all \in BOOLEAN : histUpBegin(all)
  \/ \E all \in BOOLEAN : histDownBegin(all)
  \/ histUpProc
  \/ histUpRecord
  \/ histDownProc
  \/ histDownErase
  \/ histSettled
  \/ histKilled

SpecHist == Init /\ [][NextHist]_vars

(***************************************************************************)
(* Vocabulary of the properties, stated apart from the operators above     *)
(***************************************************************************)
DigitVal ==
  [c \in Digits |->
     CASE c = "0" -> 0 [] c = "1" -> 1 [] c = "2" -> 2 [] c = "3" -> 3 [] c = "4" -> 4
       [] c = "5" -> 5 [] c = "6" -> 6 [] c = "7" -> 7 [] c = "8" -> 8 [] c = "9" -> 9]

\* timestamp a is chronologically after timestamp b (both of TsLen digits)
Later(a, b) ==
  \E k \in 1..TsLen :
    /\ \A j \in 1..(k - 1) : a[j] = b[j]
    /\ DigitVal[a[k]] > DigitVal[b[k]]

\* the migration files of the pool, and the identity each one's name states
MigrationFiles == {FInit, FAddCol, FIdx, FOther}
StampOf(f) == SubSeq(f, 1, TsLen)
NameOf(f) == SubSeq(f, TsLen + 2, Len(f) - 3)

Candidates == disk \cap MigrationFiles

DistinctStamps == \A f, g \in Candidates : f # g => StampOf(f) # StampOf(g)

\* the candidates newer than every row of the table the invocation started from
Pending ==
  {f \in Candidates : \A row \in run.table0 : Later(StampOf(f), row.timestamp)}

\* the invocation has called the procedures of the first n planned migrations,
\* once each, in plan order
InvokedFirst(n) == invoked = [k \in 1..n |-> k]

\* the rows of the table that were not there when the invocation started
AddedRows == table \ run.table0

\* row r is the ledger entry of planned migration m
EntryOf(r, m) == r.name = m.name /\ r.timestamp = m.timestamp

UpEnded(kind) == pc = "done" /\ run.cmd = "up" /\ Outcome = kind
DownEnded(kind) == pc = "done" /\ run.cmd = "down" /\ Outcome = kind

(***************************************************************************)
(* Properties                                                              *)
(***************************************************************************)

\* C1 - Fail-fast on up: when the forward procedure of the k-th of n planned
\* migrations fails, the procedures of the first k planned migrations are the
\* only ones invoked, exactly k-1 rows were added, one for each of the first
\* k-1 planned migrations and none for the k-th, and the one error logged
\* names the k-th migration.
FailFastUp ==
  UpEnded("failed") =>
    LET k == Len(invoked)
    IN  /\ k \in 1..Len(migrations)
        /\ InvokedFirst(k)
        /\ run.table0 \subseteq table
        /\ Cardinality(AddedRows) = k - 1
        /\ \A j \in 1..(k - 1) : \E r \in AddedRows : EntryOf(r, migrations[j])
        /\ \A r \in AddedRows : ~EntryOf(r, migrations[k])
        /\ log[Len(log)] = [level |-> "error", msg |-> "Migration failed",
                            name |-> NameOf(migrations[k].filename)]
        /\ Cardinality({j \in 1..Len(log) : log[j].level = "error"}) = 1

\* the 2nd of 3 planned migrations failed
FailFastUpWitness ==
  /\ UpEnded("failed")
  /\ Len(migrations) = 3
  /\ Len(invoked) = 2
  /\ Cardinality(AddedRows) = 1

\* C2 - Ordering of up: the forward procedures are invoked in strictly
\* ascending timestamp order, whatever order the directory listing has (stated
\* for directories without a timestamp collision).
UpAscending ==
  (run.cmd = "up" /\ DistinctStamps) =>
    \A a, b \in 1..Len(invoked) :
      a < b => Later(migrations[invoked[b]].timestamp, migrations[invoked[a]].timestamp)

\* C3 - Forward selection: up --all plans exactly the candidates whose
\* timestamp is strictly greater than that of the latest ledger entry, all
\* candidates when the ledger is empty, each once.
ForwardSelection ==
  (run.cmd = "up" /\ run.all) =>
    /\ {migrations[k].filename : k \in 1..Len(migrations)} = Pending
    /\ Len(migrations) = Cardinality(Pending)
    /\ \A k \in 1..Len(migrations) :
         /\ migrations[k].timestamp = StampOf(migrations[k].filename)
         /\ migrations[k].name = NameOf(migrations[k].filename)

\* a non-empty ledger, something planned and a candidate left out
ForwardSelectionWitness ==
  /\ run.cmd = "up" /\ run.all
  /\ run.table0 # {}
  /\ Len(migrations) > 0
  /\ Cardinality(Candidates) > Len(migrations)
  /\ disk # Candidates

\* C4 - up --one plans at most one migration and, when something is pending,
\* the pending migration with the smallest timestamp, whatever order the
\* directory listing has.
UpOneEarliest ==
  (run.cmd = "up" /\ ~run.all) =>
    /\ Len(migrations) <= 1
    /\ Pending # {} =>
         /\ Len(migrations) = 1
         /\ migrations[1].filename \in Pending
         /\ \A f \in Pending : ~Later(migrations[1].timestamp, StampOf(f))

\* C5 - Backward plan: down --all plans every ledger entry, latest first, and
\* invokes the backward procedures in that order; down --one plans the single
\* latest entry; on an empty ledger nothing is planned or invoked, the ledger
\* stays as it is and down returns normally.
BackwardPlan ==
  run.cmd = "down" =>
    /\ InvokedFirst(Len(invoked))
    /\ Len(invoked) <= Len(migrations)
    /\ \A k \in 1..Len(migrations) :
         \E row \in run.table0 :
           /\ row.id = migrations[k].id
           /\ EntryOf(row, migrations[k])
    /\ \A a, b \in 1..Len(migrations) :
         a < b => /\ migrations[a].id # migrations[b].id
                  /\ ~Later(migrations[b].timestamp, migrations[a].timestamp)
    /\ run.all => Len(migrations) = Cardinality(run.table0)
    /\ (~run.all /\ run.table0 # {}) =>
         /\ Len(migrations) = 1
         /\ \A row \in run.table0 : ~Later(row.timestamp, migrations[1].timestamp)
    /\ run.table0 = {} =>
         /\ migrations = <<>>
         /\ invoked = <<>>
         /\ table = run.table0
         /\ pc = "done"
         /\ Outcome = "noNew"

\* down --all over three entries of distinct timestamps, all rolled back
BackwardPlanWitness ==
  /\ DownEnded("success")
  /\ run.all
  /\ Len(migrations) = 3
  /\ Len(invoked) = 3
  /\ Later(migrations[1].timestamp, migrations[2].timestamp)
  /\ Later(migrations[2].timestamp, migrations[3].timestamp)

\* C6 - up --all runs all outstanding migrations: when an up --all run ends
\* without a failure, every migration file on disk has a ledger entry (stated
\* for directories without a timestamp collision).
UpAllRunsAll ==
  ((UpEnded("success") \/ UpEnded("noNew")) /\ run.all /\ DistinctStamps) =>
    \A f \in Candidates :
      \E row \in table : row.timestamp = StampOf(f) /\ row.name = NameOf(f)

\* C7 as stated - a second up --all in a row, no file added in between,
\* invokes no forward procedure, leaves the ledger as it is and ends with
\* 'No new migrations' (stated for runs in which every file loads and every
\* ledger write succeeds).
UpAllTwice ==
  (/\ run.cmd = "up" /\ run.all
   /\ prev.cmd = "up" /\ prev.all /\ prev.outcome # "aborted"
   /\ ~run.added /\ Outcome # "aborted") =>
    /\ invoked = <<>>
    /\ table = run.table0
    /\ pc = "done" => Outcome = "noNew"

\* C7 amended - the same, when the first up --all ended without a failure
\* (success or 'No new migrations').
UpAllTwiceAfterSuccess ==
  (/\ run.cmd = "up" /\ run.all
   /\ prev.cmd = "up" /\ prev.all /\ prev.outcome \in {"success", "noNew"}
   /\ ~run.added) =>
    /\ migrations = <<>>
    /\ invoked = <<>>
    /\ table = run.table0
    /\ pc = "done"
    /\ Outcome = "noNew"

\* the second up --all, after a first one that applied two migrations
UpAllTwiceWitness ==
  /\ UpEnded("noNew")
  /\ run.all /\ ~run.added
  /\ prev.cmd = "up" /\ prev.all /\ prev.outcome = "success"
  /\ Cardinality(table \ prev.table0) >= 2

\* C8 - Round-trip: up --one followed at once by down --one, both succeeding,
\* leaves the ledger with the entries it had before the up; and no step of an
\* invocation changes the migrations directory.
RoundTripLedger ==
  (/\ DownEnded("success") /\ ~run.all
   /\ prev.cmd = "up" /\ ~prev.all /\ prev.outcome = "success") =>
    /\ table = prev.table0
    /\ Cardinality(run.table0 \ table) = 1
    /\ table \subseteq run.table0

RoundTrip ==
  /\ []RoundTripLedger
  /\ [][(pc # "idle" \/ pc' # "idle") => disk' = disk]_vars

\* the round trip from a ledger that already held an entry
RoundTripWitness ==
  /\ DownEnded("success") /\ ~run.all
  /\ prev.cmd = "up" /\ ~prev.all /\ prev.outcome = "success"
  /\ prev.table0 # {}
  /\ disk # {}

\* C9 - Fail-fast on down: when the backward procedure of the k-th planned
\* entry fails the run halts; the entries deleted are exactly the first k-1
\* planned ones, the k-th and all later planned entries stay in the ledger and
\* no later backward procedure is invoked.
FailFastDown ==
  DownEnded("failed") =>
    LET k == Len(invoked)
    IN  /\ k \in 1..Len(migrations)
        /\ InvokedFirst(k)
        /\ table \subseteq run.table0
        /\ {row.id : row \in run.table0 \ table} = {migrations[j].id : j \in 1..(k - 1)}
        /\ \A j \in k..Len(migrations) : \E row \in table : row.id = migrations[j].id
        /\ log[Len(log)] = [level |-> "error", msg |-> "Migration failed",
                            name |-> migrations[k].name]

\* the 2nd of 3 planned rollbacks failed
FailFastDownWitness ==
  /\ DownEnded("failed")
  /\ Len(migrations) = 3
  /\ Len(invoked) = 2
  /\ Cardinality(table) = 2

\* C10 - Pool release: whenever an up or down invocation that established the
\* pool ends, by whichever exit, the pool has been drained.
PoolReleased == pc = "done" => pool = "drained"


\* while the procedure of a planned migration runs, it is the only one running
\* and every planned migration before it has had its procedure called and its
\* ledger write completed (its row is there on up, gone on down)
NoOverlapNow ==
  /\ Cardinality(running) <= 1
  /\ \A k \in running :
       /\ k = i + 1
       /\ InvokedFirst(k)
       /\ \A j \in 1..(k - 1) :
            IF run.cmd = "up"
              THEN \E r \in AddedRows : EntryOf(r, migrations[j])
              ELSE \A r \in table : r.id # migrations[j].id

\* C15 - No overlap between steps: at most one migration procedure is running
\* at any time, the procedure of a planned migration is started only when no
\* other is running, and by then every planned migration before it has
\* completed its procedure and its ledger write (insert on up, delete on down).
NoOverlap ==
  /\ []NoOverlapNow
  /\ [][Len(invoked') > Len(invoked) => running = {}]_vars

\* the procedure of the 2nd planned migration of a down is running
NoOverlapWitness ==
  /\ pc = "downProc"
  /\ running = {2}
  /\ Len(invoked) = 2

\* C16 - Load happens per step: when the file of the k-th planned migration of
\* a forward batch fails to load, the first k-1 planned migrations have been
\* executed and have ledger entries, and the run aborts with the load error.
LoadPerStep ==
  (pc = "done" /\ run.cmd = "up" /\ thrown.error = "LoadError") =>
    /\ result = "rejected"
    /\ InvokedFirst(thrown.at - 1)
    /\ \A j \in 1..(thrown.at - 1) : \E r \in AddedRows : EntryOf(r, migrations[j])

\* C16, as the code has it - Load happens up front: when the file of the k-th
\* planned migration of a forward batch fails to load, no planned migration
\* has been executed, the ledger is as the run found it, nothing was logged,
\* and the run aborts with the load error.
LoadUpFront ==
  (pc = "done" /\ run.cmd = "up" /\ thrown.error = "LoadError") =>
    /\ result = "rejected"
    /\ thrown.at \in 1..Len(migrations)
    /\ invoked = <<>>
    /\ table = run.table0
    /\ log = <<>>

\* the file of the 2nd of 3 planned migrations failed to load
LoadUpFrontWitness ==
  /\ pc = "done"
  /\ run.cmd = "up"
  /\ thrown = [error |-> "LoadError", at |-> 2]
  /\ Len(migrations) = 3

\* the messages of the log that end a run
NoNewLogged ==
  Cardinality({k \in 1..Len(log) : log[k].msg = "No new migrations"})
SuccessLogged ==
  Cardinality({k \in 1..Len(log) :
                 log[k].msg \in {"Migration Successful", "Migration successful"}})
FailureLogged ==
  Cardinality({k \in 1..Len(log) : log[k].level = "error"})

\* every planned migration was run and its ledger write completed
BatchCompleted ==
  /\ Len(migrations) >= 1
  /\ InvokedFirst(Len(migrations))
  /\ i = Len(migrations)
  /\ running = {}
  /\ \A j \in 1..Len(migrations) :
       IF run.cmd = "up"
         THEN \E r \in AddedRows : EntryOf(r, migrations[j])
         ELSE \A r \in table : r.id # migrations[j].id

RunOutcomeOf ==
  /\ result = "returned"
  /\ NoNewLogged + SuccessLogged + FailureLogged = 1
  /\ FailureLogged = 1 =>
       /\ log[Len(log)].level = "error"
       /\ log[Len(log)].name = migrations[i + 1].name
  /\ NoNewLogged = 1 => migrations = <<>>
  /\ SuccessLogged = 1 <=> BatchCompleted

\* C19 - Run outcome: every up or down run whose ledger reads and writes
\* succeed returns normally with exactly one of 'No new migrations', success,
\* or a failure naming one migration, and the success message is there if and
\* only if the plan was non-empty and every planned migration was run and its
\* ledger write completed.
RunOutcome ==
  (pc = "done" /\ thrown.error # "PersistenceError") => RunOutcomeOf

\* C19, for the runs that loaded their files - Run outcome: every up or down
\* run whose ledger reads and writes succeed and whose planned migration files
\* all load returns normally with exactly one of the three outcomes, the
\* success message being there if and only if the batch was completed.
RunOutcomeLoaded ==
  (pc = "done" /\ thrown = NoError) => RunOutcomeOf

\* a down --all of two migrations whose 2nd backward procedure failed
RunOutcomeWitness ==
  /\ pc = "done"
  /\ thrown = NoError
  /\ run.cmd = "down"
  /\ Len(migrations) = 2
  /\ i = 1
  /\ FailureLogged = 1

\* C18 - Timestamp uniqueness: in every reachable state the ledger holds at
\* most one entry per timestamp.
UniqueTimestamps ==
  \A r1, r2 \in table : r1.timestamp = r2.timestamp => r1 = r2

\* C18, for directories without a timestamp collision - when the migration
\* files on disk have pairwise distinct timestamps, the ledger holds at most
\* one entry per timestamp.
UniqueTimestampsOnDisk ==
  DistinctStamps => UniqueTimestamps

\* an up that found a ledger entry has recorded two more
UniqueTimestampsWitness ==
  /\ DistinctStamps
  /\ run.cmd = "up"
  /\ run.table0 # {}
  /\ Cardinality(AddedRows) = 2

\* C20 - No re-application: for on-disk migrations with pairwise distinct
\* timestamps, the forward procedure up has called last is not that of a
\* migration whose timestamp had a ledger entry when it was called, and up
\* calls no migration's forward procedure twice within one run.
NoReapplication ==
  (run.cmd = "up" /\ DistinctStamps) =>
    /\ \A a, b \in 1..Len(invoked) :
         a # b => migrations[invoked[a]].filename # migrations[invoked[b]].filename
    /\ pc = "upProc" =>
         \A row \in table : row.timestamp # migrations[invoked[Len(invoked)]].timestamp

\* an up that found a ledger entry is running its 2nd forward procedure
NoReapplicationWitness ==
  /\ DistinctStamps
  /\ pc = "upProc"
  /\ run.table0 # {}
  /\ Len(invoked) = 2


\* C11 - Idempotent bootstrap: whatever of the database, the _migrations
\* table and its timestamp index was there when connectToDb started (the state
\* left by a bootstrap stopped between creating the table and creating the
\* index included), when connectToDb completes all three exist, and a
\* connectToDb after a completed one creates nothing.
IdempotentBootstrap ==
  /\ pc = "connected" => (db.db /\ db.table /\ db.index)
  /\ (boot.connected /\ pc \in bootSteps) => boot.created = {}


\* C12 - CLI mutual exclusion: a command line of up or down with both --all
\* and --one exits with status 1 and changes nothing: no up or down is
\* started, no migration procedure is called, the ledger is as it was.
MutualExclusion ==
  [][(cli' # cli /\ cli'.command \in {"up", "down"} /\ cli'.all /\ cli'.one) =>
       (cli'.exit = 1 /\ UNCHANGED core)]_vars

\* down --all --one was refused with a ledger that has an entry
MutualExclusionWitness ==
  /\ cli = [command |-> "down", all |-> TRUE, one |-> TRUE, exit |-> 1]
  /\ table # {}

\* C13 - Default limit: the run of an up or down process is limited to one
\* migration if and only if --one was given; otherwise, --all given or not, it
\* plans every pending migration (up) or every ledger entry (down).
DefaultLimit ==
  (cli.command \in {"up", "down"} /\ cli.exit = -1) =>
    /\ run.cmd = cli.command
    /\ run.all <=> ~cli.one
    /\ thrown.error # "LoadError" =>
         IF cli.one
           THEN /\ Len(migrations) <= 1
                /\ Len(invoked) <= 1
           ELSE Len(migrations) = IF cli.command = "up"
                                     THEN Cardinality(Pending)
                                     ELSE Cardinality(run.table0)

\* an up without --all and without --one has run two migrations
DefaultLimitWitness ==
  /\ cli = [command |-> "up", all |-> FALSE, one |-> FALSE, exit |-> -1]
  /\ pc = "done"
  /\ Len(invoked) = 2
  /\ Cardinality(AddedRows) = 2


\* the timestamps of the ledger
LedgerStamps == {row.timestamp : row \in table}

\* C14 - Ledger invariant: from an empty ledger, as long as every ledger write
\* that followed a procedure's success was made, whenever no migration step
\* is between its procedure and its ledger write the ledger timestamps are
\* timestamps of on-disk migrations, and the ledger entries are exactly the
\* migrations whose forward procedure succeeded and whose backward procedure
\* has not succeeded since.
LedgerInvariant ==
  (~hist.unwritten /\ pc \notin {"upRecord", "downErase"}) =>
    /\ LedgerStamps \subseteq {StampOf(f) : f \in Candidates}
    /\ LedgerStamps = {a.timestamp : a \in hist.applied}
    /\ {identity(row) : row \in table} = hist.applied

\* a down --all of two migrations reverted one, then its 2nd backward
\* procedure failed
LedgerInvariantWitness ==
  /\ pc = "done"
  /\ run.cmd = "down"
  /\ ~hist.unwritten
  /\ FailureLogged = 1
  /\ i = 1
  /\ Cardinality(hist.applied) = 1

\* C17, the run that stops - when up stops after the forward procedure of m
\* succeeded and before m's ledger entry was inserted, m has no ledger entry
\* and no later planned migration of that run was invoked.
UnrecordedStop ==
  /\ hist.window # <<>> => \A row \in table : identity(row) # hist.window[1]
  /\ (pc = "done" /\ run.cmd = "up" /\ thrown.error = "PersistenceError") =>
       /\ hist.window = <<identity(migrations[thrown.at])>>
       /\ InvokedFirst(thrown.at)

\* C17, the run that follows - the next run, an up --all over files of
\* pairwise distinct timestamps, plans m again.
UnrecordedPlannedAgain ==
  (hist.again # <<>> /\ run.cmd = "up" /\ run.all /\ DistinctStamps) =>
    \E k \in 1..Len(migrations) : identity(migrations[k]) = hist.again[1]

\* C17 - Unrecorded-apply window: when an up run stops after the forward
\* procedure of migration m succeeded and before m's ledger entry was
\* inserted, m has no ledger entry, no later planned migration of that run
\* was invoked, and the up --all run that follows plans m again.
UnrecordedWindow == UnrecordedStop /\ UnrecordedPlannedAgain

====
